---------------------------- MODULE Spec2Model ----------------------------
(* PDF overlay viewer (PDFOverlayApp): rectangle unit conversion, viewport *)
(* projection, ingestion of Azure-DI-like JSON, the rectangle list and the *)
(* asynchronous page render pass.                                          *)
(*                                                                         *)
(* Numbers are JavaScript numbers restricted to exact rationals plus NaN:  *)
(* [t |-> "num", v |-> [n |-> numerator, d |-> denominator]], d = 0 is NaN.*)
(* Floating-point rounding is not modelled.                                *)
EXTENDS Integers, Sequences, FiniteSets, TLC

VARIABLES
  \* --- conversion (rectToPdfPoints / rectToViewport) ---
  cRect,      \* the rectangle handed to the converter
  cPage,      \* the page: [w, h, rotate] (PDF view box 0,0,w,h and page.rotate)
  cScale,     \* the zoom scale
  cStage,     \* "input" | "converted" | "projected"
  cPts,       \* result of rectToPdfPoints
  cBox,       \* result of rectToViewport
  \* --- ingestion (parseUploadedAzureJson / polygonsToRects) ---
  pWords,     \* the word entries the input document is built from
  pShape,     \* [kind, gp]: the shape of the document and the group's page
  pUnit,      \* the unit handed to polygonsToRects
  raw,        \* the parsed JSON value handed to parseUploadedAzureJson
  pStage,     \* "input" | "parsed" | "converted"
  parsed,     \* [threw |-> BOOLEAN, rects |-> sequence]
  polyOut,    \* result of polygonsToRects on the same words
  \* --- component state (useState) ---
  pdfUrl,     \* 0 = null, otherwise the object url of the chosen file
  scale,      \* zoom
  rects,      \* the rectangle list
  unit,       \* unit for manual adds
  loading,    \* the "Rendering..." flag
  nextId,     \* source of fresh ids (crypto.randomUUID)
  lastOp,     \* history: the last list handler that ran (kept by SpecStore)
  alerts,     \* number of alert() dialogs shown
  jsonText,   \* the textarea content: 0 = "", otherwise one of Texts
  uploads,    \* JSON files picked whose file.text() is still pending
  \* --- render passes and the DOM ---
  passes,     \* one record per started async render pass, in start order
  container   \* children of the preview container, in DOM order

convVars  == <<cRect, cPage, cScale, cStage, cPts, cBox>>
parseVars == <<pWords, pShape, pUnit, raw, pStage, parsed, polyOut>>
storeVars == <<rects, unit, nextId, alerts, jsonText, uploads>>
viewVars  == <<pdfUrl, scale, loading, passes, container>>
vars == <<cRect, cPage, cScale, cStage, cPts, cBox, pWords, pShape, pUnit, raw, pStage, parsed, polyOut,
          pdfUrl, scale, rects, unit, loading, nextId, lastOp, alerts,
          jsonText, uploads,
          passes, container>>

-----------------------------------------------------------------------------
(* JavaScript numbers                                                      *)

Abs(n) == IF n < 0 THEN -n ELSE n

RECURSIVE GCD(_, _)
GCD(a, b) == IF b = 0 THEN a ELSE GCD(b, a % b)

\* the rational n/d in lowest terms with a positive denominator (d # 0)
Rat(n, d) ==
  LET g == GCD(Abs(n), Abs(d))
      s == IF d < 0 THEN -1 ELSE 1
  IN [n |-> (s * n) \div g, d |-> (s * d) \div g]

Num(n, d) == [t |-> "num", v |-> Rat(n, d)]
N(i)      == Num(i, 1)
NaN       == [t |-> "num", v |-> [n |-> 0, d |-> 0]]
IsNaN(a)  == a.v.d = 0

JAdd(a, b) == IF IsNaN(a) \/ IsNaN(b) THEN NaN
              ELSE Num(a.v.n * b.v.d + b.v.n * a.v.d, a.v.d * b.v.d)
JSub(a, b) == IF IsNaN(a) \/ IsNaN(b) THEN NaN
              ELSE Num(a.v.n * b.v.d - b.v.n * a.v.d, a.v.d * b.v.d)
JMul(a, b) == IF IsNaN(a) \/ IsNaN(b) THEN NaN
              ELSE Num(a.v.n * b.v.n, a.v.d * b.v.d)
JDiv2(a)   == IF IsNaN(a) THEN NaN ELSE Num(a.v.n, a.v.d * 2)
\* a < b; false when either side is NaN
JLt(a, b)  == ~IsNaN(a) /\ ~IsNaN(b) /\ a.v.n * b.v.d < b.v.n * a.v.d
JLe(a, b)  == ~IsNaN(a) /\ ~IsNaN(b) /\ a.v.n * b.v.d <= b.v.n * a.v.d
MathAbs(a) == IF IsNaN(a) THEN NaN ELSE Num(Abs(a.v.n), a.v.d)

-----------------------------------------------------------------------------
(* JavaScript values: [t |-> tag, v |-> payload]                           *)

Undef    == [t |-> "undef", v |-> 0]
Null     == [t |-> "null", v |-> 0]
Str(s)   == [t |-> "str", v |-> s]     \* s: a sequence of characters
Arr(s)   == [t |-> "arr", v |-> s]
Obj(f)   == [t |-> "obj", v |-> f]

Nullish(a) == a.t \in {"undef", "null"}
\* a ?? b
Coalesce(a, b) == IF Nullish(a) THEN b ELSE a
\* a.k on a value that is not null or undefined
Get(a, k) == IF a.t = "obj" /\ k \in DOMAIN a.v THEN a.v[k] ELSE Undef
\* a?.k
OptGet(a, k) == IF Nullish(a) THEN Undef ELSE Get(a, k)
\* a?.[i] with a 0-based index
OptIndex(a, i) ==
  IF a.t = "arr" /\ i + 1 \in DOMAIN a.v THEN a.v[i + 1]
  ELSE IF a.t = "str" /\ i + 1 \in DOMAIN a.v THEN Str(<<a.v[i + 1]>>)
  ELSE Undef
\* !a
Falsy(a) == \/ Nullish(a)
            \/ a.t = "num" /\ (IsNaN(a) \/ a.v.n = 0)
            \/ a.t = "str" /\ a.v = <<>>
IsArray(a) == a.t = "arr"
\* for (const x of a) throws a TypeError unless a is iterable
Iterable(a) == a.t \in {"arr", "str"}
Items(a) == IF a.t = "arr" THEN a.v ELSE [i \in DOMAIN a.v |-> Str(<<a.v[i]>>)]
\* ToNumber as Math.min / Math.max apply it to each argument
ToNumber(a) == IF a.t = "num" THEN a ELSE IF a.t = "null" THEN N(0) ELSE NaN

RECURSIVE MinOf(_)
MinOf(s) == IF Len(s) = 1 THEN s[1]
            ELSE LET m == MinOf(Tail(s)) IN IF JLt(s[1], m) THEN s[1] ELSE m
RECURSIVE MaxOf(_)
MaxOf(s) == IF Len(s) = 1 THEN s[1]
            ELSE LET m == MaxOf(Tail(s)) IN IF JLt(m, s[1]) THEN s[1] ELSE m

\* Math.min(...s): NaN as soon as one argument converts to NaN
MathMin(s) ==
  LET c == [i \in DOMAIN s |-> ToNumber(s[i])]
  IN IF \E i \in DOMAIN c : IsNaN(c[i]) THEN NaN ELSE MinOf(c)
MathMax(s) ==
  LET c == [i \in DOMAIN s |-> ToNumber(s[i])]
  IN IF \E i \in DOMAIN c : IsNaN(c[i]) THEN NaN ELSE MaxOf(c)

-----------------------------------------------------------------------------
(* Space converter and viewport projector                                  *)

PtsPerInch == 72

rectToPdfPoints_NoFlip(rect, pageSizePts) ==
  IF rect.unit = "pdf" THEN
    [left |-> rect.x, bottom |-> rect.y,
     right |-> JAdd(rect.x, rect.width), top |-> JAdd(rect.y, rect.height)]
  ELSE IF rect.unit = "inch" THEN
    [left |-> JMul(rect.x, N(PtsPerInch)),
     right |-> JMul(JAdd(rect.x, rect.width), N(PtsPerInch)),
     bottom |-> JMul(JAdd(rect.y, rect.height), N(PtsPerInch)),
     top |-> JMul(rect.y, N(PtsPerInch))]
  ELSE
    [left |-> JMul(rect.x, pageSizePts.width),
     right |-> JMul(JAdd(rect.x, rect.width), pageSizePts.width),
     bottom |-> JMul(JAdd(rect.y, rect.height), pageSizePts.height),
     top |-> JMul(rect.y, pageSizePts.height)]

rectToPdfPoints_FlipAll(rect, pageSizePts) ==
  LET h == pageSizePts.height
      r == rectToPdfPoints_NoFlip(rect, pageSizePts)
  IN [left |-> r.left, right |-> r.right,
      bottom |-> JSub(h, r.bottom), top |-> JSub(h, r.top)]

rectToPdfPoints(rect, pageSizePts) ==
  IF rect.unit = "pdf" THEN
    [left   |-> rect.x,
     bottom |-> rect.y,
     right  |-> JAdd(rect.x, rect.width),
     top    |-> JAdd(rect.y, rect.height)]
  ELSE IF rect.unit = "inch" THEN
    LET leftInPts   == JMul(rect.x, N(PtsPerInch))
        topInPts    == JMul(rect.y, N(PtsPerInch))
        rightInPts  == JMul(JAdd(rect.x, rect.width), N(PtsPerInch))
        bottomInPts == JMul(JAdd(rect.y, rect.height), N(PtsPerInch))
        h           == pageSizePts.height
    IN [left   |-> leftInPts,
        right  |-> rightInPts,
        bottom |-> JSub(h, bottomInPts),
        top    |-> JSub(h, topInPts)]
  ELSE
    LET leftPts   == JMul(rect.x, pageSizePts.width)
        topPts    == JMul(rect.y, pageSizePts.height)
        rightPts  == JMul(JAdd(rect.x, rect.width), pageSizePts.width)
        bottomPts == JMul(JAdd(rect.y, rect.height), pageSizePts.height)
        h         == pageSizePts.height
    IN [left   |-> leftPts,
        right  |-> rightPts,
        bottom |-> JSub(h, bottomPts),
        top    |-> JSub(h, topPts)]

\* page.getViewport({scale, rotation}) of pdfjs-dist for a page whose view box
\* is [0, 0, w, h]: the PageViewport's transform, width and height.
getViewport(page, sc, rotation) ==
  LET centerX == JDiv2(page.w)
      centerY == JDiv2(page.h)
      rot == CASE rotation = 180 -> <<-1, 0, 0, 1>>
               [] rotation = 90  -> <<0, 1, 1, 0>>
               [] rotation = 270 -> <<0, -1, -1, 0>>
               [] OTHER          -> <<1, 0, 0, -1>>
      rA == N(rot[1])
      rB == N(rot[2])
      rC == N(rot[3])
      rD == N(rot[4])
      offsetCanvasX == IF rot[1] = 0 THEN JMul(MathAbs(centerY), sc)
                                     ELSE JMul(MathAbs(centerX), sc)
      offsetCanvasY == IF rot[1] = 0 THEN JMul(MathAbs(centerX), sc)
                                     ELSE JMul(MathAbs(centerY), sc)
  IN [transform |->
        << JMul(rA, sc), JMul(rB, sc), JMul(rC, sc), JMul(rD, sc),
           JSub(JSub(offsetCanvasX, JMul(JMul(rA, sc), centerX)),
                JMul(JMul(rC, sc), centerY)),
           JSub(JSub(offsetCanvasY, JMul(JMul(rB, sc), centerX)),
                JMul(JMul(rD, sc), centerY)) >>,
      width  |-> IF rot[1] = 0 THEN JMul(page.h, sc) ELSE JMul(page.w, sc),
      height |-> IF rot[1] = 0 THEN JMul(page.w, sc) ELSE JMul(page.h, sc)]

\* viewport.convertToViewportPoint(x, y)
convertToViewportPoint(viewport, x, y) ==
  LET m == viewport.transform
  IN << JAdd(JAdd(JMul(x, m[1]), JMul(y, m[3])), m[5]),
        JAdd(JAdd(JMul(x, m[2]), JMul(y, m[4])), m[6]) >>

rectToViewport_NoAbs(rect, viewport, pageSizePts) ==
  LET pts == rectToPdfPoints(rect, pageSizePts)
      v1 == convertToViewportPoint(viewport, pts.left, pts.top)
      v2 == convertToViewportPoint(viewport, pts.right, pts.bottom)
  IN [left |-> v1[1], top |-> v1[2],
      width |-> JSub(v2[1], v1[1]), height |-> JSub(v2[2], v1[2])]

rectToViewport(rect, viewport, pageSizePts) ==
  LET pts == rectToPdfPoints(rect, pageSizePts)
      v1 == convertToViewportPoint(viewport, pts.left, pts.top)
      v2 == convertToViewportPoint(viewport, pts.right, pts.bottom)
      vLeft  == MathMin(<<v1[1], v2[1]>>)
      vTop   == MathMin(<<v1[2], v2[2]>>)
      width  == MathAbs(JSub(v2[1], v1[1]))
      height == MathAbs(JSub(v2[2], v1[2]))
  IN [left |-> vLeft, top |-> vTop, width |-> width, height |-> height]

\* the page size the render loop hands to rectToViewport: the scale-1 viewport
pageSizeOf(page) ==
  LET baseViewport == getViewport(page, N(1), page.rotate)
  IN [width |-> baseViewport.width, height |-> baseViewport.height]

-----------------------------------------------------------------------------
(* Ingestion                                                               *)

MinPolygonLen == 8

\* p.length
LengthOf(p) == IF p.t \in {"arr", "str"} THEN N(Len(p.v)) ELSE Undef

\* the four x (o = 0) or y (o = 1) coordinates p[o], p[o+2], p[o+4], p[o+6]
Coords(p, o) == << OptIndex(p, o), OptIndex(p, o + 2),
                   OptIndex(p, o + 4), OptIndex(p, o + 6) >>

polyRect_NoCheck(it, idx, u) ==
  LET p == Get(it, "polygon")
  IN [threw |-> FALSE,
      rect |-> [id |-> <<"poly", Get(it, "page"), idx>>,
                page |-> Get(it, "page"),
                x |-> MathMin(Coords(p, 0)), y |-> MathMin(Coords(p, 1)),
                width |-> JSub(MathMax(Coords(p, 0)), MathMin(Coords(p, 0))),
                height |-> JSub(MathMax(Coords(p, 1)), MathMin(Coords(p, 1))),
                unit |-> u, label |-> Get(it, "label")]]

\* the callback of items.map in polygonsToRects, for the item at 0-based idx
polyRect(it, idx, u) ==
  LET p == Get(it, "polygon")
  IN IF Falsy(p) \/ (LengthOf(p).t = "num" /\ JLt(LengthOf(p), N(MinPolygonLen)))
     THEN [threw |-> TRUE, rect |-> Undef]
     ELSE LET xs == Coords(p, 0)
              ys == Coords(p, 1)
              minX == MathMin(xs)
              maxX == MathMax(xs)
              minY == MathMin(ys)
              maxY == MathMax(ys)
          IN [threw |-> FALSE,
              rect |-> [id |-> <<"poly", Get(it, "page"), idx>>,
                        page |-> Get(it, "page"),
                        x |-> minX,
                        y |-> minY,
                        width |-> JSub(maxX, minX),
                        height |-> JSub(maxY, minY),
                        unit |-> u,
                        label |-> Get(it, "label")]]

\* polygonsToRects(items, unit): an exception in the callback leaves map, and
\* the function, without a result
polygonsToRects(items, u) ==
  LET each == [i \in DOMAIN items |-> polyRect(items[i], i - 1, u)]
  IN IF \E i \in DOMAIN each : each[i].threw
     THEN [threw |-> TRUE, rects |-> <<>>]
     ELSE [threw |-> FALSE, rects |-> [i \in DOMAIN each |-> each[i].rect]]

wordRect_MaxAsExtent(w, page, id) ==
  LET p == Get(w, "polygon")
  IN [id |-> id,
      page |-> Coalesce(Get(w, "page"), Coalesce(page, N(1))),
      x |-> MathMin(Coords(p, 0)),
      y |-> MathMin(Coords(p, 1)),
      width |-> MathMax(Coords(p, 0)),
      height |-> MathMax(Coords(p, 1)),
      unit |-> "inch",
      label |-> Get(w, "name")]

\* the record pushed for word w
wordRect(w, page, id) ==
  LET p == Get(w, "polygon")
  IN [id |-> id,
      page |-> Coalesce(Get(w, "page"), Coalesce(page, N(1))),
      x |-> MathMin(Coords(p, 0)),
      y |-> MathMin(Coords(p, 1)),
      width |-> JSub(MathMax(Coords(p, 0)), MathMin(Coords(p, 0))),
      height |-> JSub(MathMax(Coords(p, 1)), MathMin(Coords(p, 1))),
      unit |-> "inch",
      label |-> Get(w, "name")]

\* if (!w?.polygon || !Array.isArray(w.polygon)) continue
wordSkipped(w) ==
  Falsy(OptGet(w, "polygon")) \/ ~IsArray(Get(w, "polygon"))

\* for (const w of words): the list with the rectangles of ws[i..] appended
RECURSIVE wordsLoop(_, _, _, _, _)
wordsLoop(ws, i, page, rs, idBase) ==
  IF i > Len(ws) THEN rs
  ELSE IF wordSkipped(ws[i]) THEN wordsLoop(ws, i + 1, page, rs, idBase)
  ELSE wordsLoop(ws, i + 1, page,
                 Append(rs, wordRect(ws[i], page, idBase + Len(rs) + 1)), idBase)

groupPage_NoFirstWord(m) == OptGet(m, "page")

\* const page = m?.page ?? m?.words?.[0]?.page
groupPage(m) ==
  Coalesce(OptGet(m, "page"), OptGet(OptIndex(OptGet(m, "words"), 0), "page"))

\* for (const m of mw), from ms[i] on; acc = [threw, rects]
RECURSIVE groupsLoop(_, _, _, _)
groupsLoop(ms, i, acc, idBase) ==
  IF acc.threw \/ i > Len(ms) THEN acc
  ELSE LET m == ms[i]
           page == groupPage(m)
           words == Coalesce(OptGet(m, "words"), Arr(<<>>))
       IN IF ~Iterable(words) THEN [threw |-> TRUE, rects |-> <<>>]
          ELSE groupsLoop(ms, i + 1,
                 [threw |-> FALSE,
                  rects |-> wordsLoop(Items(words), 1, page, acc.rects, idBase)],
                 idBase)

\* for (const res of results), from rs[i] on
RECURSIVE resultsLoop(_, _, _, _)
resultsLoop(rs, i, acc, idBase) ==
  IF acc.threw \/ i > Len(rs) THEN acc
  ELSE LET mw == Coalesce(OptGet(rs[i], "matchingWords"), Arr(<<>>))
       IN IF ~Iterable(mw) THEN [threw |-> TRUE, rects |-> <<>>]
          ELSE resultsLoop(rs, i + 1, groupsLoop(Items(mw), 1, acc, idBase), idBase)

\* parseUploadedAzureJson(raw); ids are drawn after idBase
parseUploadedAzureJson(rawv, idBase) ==
  LET results == Coalesce(OptGet(rawv, "analysisResult"), Arr(<<>>))
  IN IF ~Iterable(results) THEN [threw |-> TRUE, rects |-> <<>>]
     ELSE resultsLoop(Items(results), 1, [threw |-> FALSE, rects |-> <<>>], idBase)

-----------------------------------------------------------------------------
(* Inputs                                                                  *)

MaxCoord == 1
MaxPage  == 2

Units == {"inch", "ratio", "pdf"}

CoordVals  == {N(i) : i \in 0..MaxCoord} \cup {Num(1, 2)}
ExtentVals == {N(i) : i \in -1..(MaxCoord + 1)} \cup {Num(1, 4)}

\* view boxes [0, 0, w, h] with the page's intrinsic rotation
PageDims  == << <<612, 792>>, <<200, 100>>, <<612, 0>> >>
Rotations == {0, 90, 180, 270}
\* zoom slider positions
Scales    == {Num(1, 2), Num(3, 2)}

NoValue == Undef

InitConvIdle ==
  /\ cRect = NoValue /\ cPage = NoValue /\ cScale = NoValue
  /\ cStage = "idle" /\ cPts = NoValue /\ cBox = NoValue

InitConv ==
  /\ \E x \in CoordVals, y \in CoordVals, w \in ExtentVals, h \in ExtentVals,
        u \in Units :
       cRect = [id |-> 1, page |-> N(1), x |-> x, y |-> y,
                width |-> w, height |-> h, unit |-> u]
  /\ \E d \in DOMAIN PageDims, r \in Rotations :
       cPage = [w |-> N(PageDims[d][1]), h |-> N(PageDims[d][2]), rotate |-> r]
  /\ cScale \in Scales
  /\ cStage = "input" /\ cPts = NoValue /\ cBox = NoValue

\* polygon fields a word may carry
Polys ==
  << Undef,
     Null,
     N(5),
     Str(<<"x", "y">>),
     Arr(<<>>),
     Arr(<<N(1), N(1), N(3), N(1)>>),
     Arr(<<N(1), N(1), N(3), N(1), N(3), N(2), N(1), N(2)>>),
     Arr(<<N(2), N(0), Num(9, 2), N(1), N(4), N(3), N(1), N(2)>>),
     Arr(<<N(0), N(0), N(1), N(0), N(1), N(1), N(0), N(1), N(7), N(7)>>) >>

PageVal(pg) == IF pg = 0 THEN Undef ELSE N(pg)

\* a word entry: an object, or (k beyond Polys) null or a number
WordOf(k, pg, nm) ==
  IF k = Len(Polys) + 1 THEN Null
  ELSE IF k = Len(Polys) + 2 THEN N(3)
  ELSE Obj([name |-> nm, page |-> PageVal(pg), polygon |-> Polys[k]])

TailWord == Obj([name |-> Undef, page |-> Undef, polygon |-> Polys[7]])
TailPage == N(MaxPage + 1)

Group(pg, words) == Obj([page |-> pg, words |-> words])
Result(mw) == Obj([matchingWords |-> mw])

\* the second entry of analysisResult, by document kind
TailNode(kind) ==
  CASE kind = 8  -> Null
    [] kind = 9  -> N(1)
    [] kind = 10 -> Result(Undef)
    [] kind = 11 -> Result(Null)
    [] kind = 12 -> Result(N(5))
    [] kind = 13 -> Result(Obj([a |-> N(1)]))
    [] kind = 14 -> Result(Str(<<"a", "b">>))
    [] kind = 15 -> Result(Arr(<<Null>>))
    [] kind = 16 -> Result(Arr(<<Group(TailPage, Undef)>>))
    [] kind = 17 -> Result(Arr(<<Group(TailPage, Null)>>))
    [] kind = 18 -> Result(Arr(<<Group(TailPage, N(5))>>))
    [] kind = 19 -> Result(Arr(<<Group(TailPage, Obj([a |-> N(1)]))>>))
    [] kind = 20 -> Result(Arr(<<Group(TailPage, Str(<<"a", "b">>))>>))
    [] OTHER     -> Result(Arr(<<Group(TailPage, Arr(<<TailWord>>))>>))

\* document kinds: 1..7 without a result list, 8..21 with the group and a tail
DocKinds == 1..21

\* the JSON document of the given kind around the words ws
DocOf(kind, gp, ws) ==
  CASE kind = 1 -> Null
    [] kind = 2 -> N(7)
    [] kind = 3 -> Obj([analysisResult |-> Undef])
    [] kind = 4 -> Obj([analysisResult |-> Null])
    [] kind = 5 -> Obj([analysisResult |-> N(5)])
    [] kind = 6 -> Obj([analysisResult |-> Str(<<"a", "b">>)])
    [] kind = 7 -> Obj([analysisResult |-> Obj([a |-> N(1)])])
    [] OTHER    -> Obj([analysisResult |->
                     Arr(<< Result(Arr(<<Group(PageVal(gp), Arr(ws))>>)),
                            TailNode(kind) >>)])

\* kinds of the second word of the group
SecondKinds == {1, 6, 7, Len(Polys) + 1}

InitParseIdle ==
  /\ pWords = <<>> /\ pShape = NoValue /\ pUnit = "inch" /\ raw = NoValue
  /\ pStage = "idle" /\ parsed = NoValue /\ polyOut = NoValue

InitParse ==
  /\ \E k1 \in 1..(Len(Polys) + 2), p1 \in 0..MaxPage,
        k2 \in SecondKinds, p2 \in 0..MaxPage :
       pWords = << WordOf(k1, p1, Str(<<"a">>)), WordOf(k2, p2, Str(<<"b">>)) >>
  /\ \E kind \in DocKinds, gp \in 0..MaxPage :
       pShape = [kind |-> kind, gp |-> gp]
  /\ raw = DocOf(pShape.kind, pShape.gp, pWords)
  /\ pUnit = "inch"
  /\ pStage = "input"
  /\ parsed = NoValue /\ polyOut = NoValue

-----------------------------------------------------------------------------
(* Conversion steps                                                        *)

Convert ==
  /\ cStage = "input"
  /\ cPts' = rectToPdfPoints(cRect, pageSizeOf(cPage))
  /\ cStage' = "converted"
  /\ UNCHANGED <<cRect, cPage, cScale, cBox>>
  /\ UNCHANGED <<parseVars, storeVars, viewVars, lastOp>>

Project ==
  /\ cStage = "converted"
  /\ cBox' = rectToViewport(cRect, getViewport(cPage, cScale, cPage.rotate),
                            pageSizeOf(cPage))
  /\ cStage' = "projected"
  /\ UNCHANGED <<cRect, cPage, cScale, cPts>>
  /\ UNCHANGED <<parseVars, storeVars, viewVars, lastOp>>

(* Ingestion steps                                                         *)

Parse ==
  /\ pStage = "input"
  /\ parsed' = parseUploadedAzureJson(raw, 0)
  /\ pStage' = "parsed"
  /\ UNCHANGED <<pWords, pShape, pUnit, raw, polyOut>>
  /\ UNCHANGED <<convVars, storeVars, viewVars, lastOp>>

\* the words as the typed items polygonsToRects takes
ItemsOf(ws) ==
  [i \in DOMAIN ws |-> Obj([page |-> Get(ws[i], "page"),
                            polygon |-> Get(ws[i], "polygon"),
                            label |-> Get(ws[i], "name")])]

PolyConvert ==
  /\ pStage = "parsed"
  /\ \E u \in Units :
       /\ pUnit' = u
       /\ polyOut' = polygonsToRects(ItemsOf(pWords), u)
  /\ pStage' = "converted"
  /\ UNCHANGED <<pWords, pShape, raw, parsed>>
  /\ UNCHANGED <<convVars, storeVars, viewVars, lastOp>>

-----------------------------------------------------------------------------
(* Component state after construction                                      *)

NoOp == [op |-> "none", id |-> 0, patch |-> <<>>]

InitApp ==
  /\ pdfUrl = 0
  /\ scale = Num(3, 2)
  /\ rects = <<>>
  /\ unit = "inch"
  /\ loading = FALSE
  /\ nextId = 0
  /\ lastOp = NoOp
  /\ alerts = 0
  /\ jsonText = 0
  /\ uploads = <<>>
  /\ passes = <<>>
  /\ container = <<>>

-----------------------------------------------------------------------------
(* Rectangle list handlers                                                 *)

MaxRects  == 2       \* manual adds in a run
MaxPasses == 2       \* render passes started in a run

\* PDF files the user can pick; file f has f pages
Files == {1, 2}

\* ids updateRect / removeRect are called with: every id ever handed out and
\* one that never was
Ids == 1..(MaxRects + 1)

\* field patches the list editor sends
Patches ==
  { [page |-> N(2)], [page |-> N(MaxPage + 2)],
    [unit |-> "pdf"], [label |-> Str(<<"L">>)] }
\* the page patches among them
PagePatches == { [page |-> N(2)], [page |-> N(MaxPage + 2)] }

\* { ...r, ...patch }
Spread(r, patch) ==
  [k \in DOMAIN r \cup DOMAIN patch |->
     IF k \in DOMAIN patch THEN patch[k] ELSE r[k]]

updateRect_All(prev, id, patch) ==
  [i \in DOMAIN prev |-> Spread(prev[i], patch)]

\* prev.map((r) => (r.id === id ? { ...r, ...patch } : r))
updateRect(prev, id, patch) ==
  [i \in DOMAIN prev |->
     IF prev[i].id = id THEN Spread(prev[i], patch) ELSE prev[i]]

\* prev.filter((r) => r.id !== id)
removeRect(prev, id) == SelectSeq(prev, LAMBDA r : r.id # id)

\* [...prev, { id: crypto.randomUUID(), page: 1, x: 1, y: 1, ... unit }]
handleManualAdd(prev, id, u) ==
  Append(prev, [id |-> id, page |-> N(1), x |-> N(1), y |-> N(1),
                width |-> Num(3, 2), height |-> Num(1, 2), unit |-> u])

-----------------------------------------------------------------------------
(* Render pass (the async function of the render effect)                   *)

\* pdf.numPages of the document behind an object url
numPages(url) == url

\* every page of the sample files is an upright Letter page
PageOf(url, p) == [w |-> N(612), h |-> N(792), rotate |-> 0]

\* a === b on JavaScript values that are numbers
StrictEqNum(a, b) ==
  a.t = "num" /\ b.t = "num" /\ ~IsNaN(a) /\ ~IsNaN(b) /\ a = b

\* a.toFixed(2): rounded to hundredths (kept as a number, not a string)
ToFixed2(a) ==
  IF IsNaN(a) THEN NaN
  ELSE LET sgn == IF a.v.n < 0 THEN -1 ELSE 1
       IN Num(sgn * ((200 * Abs(a.v.n) + a.v.d) \div (2 * a.v.d)), 100)

\* rects.filter((r) => r.page === p)
pageRects(rs, p) == SelectSeq(rs, LAMBDA r : StrictEqNum(r.page, N(p)))

\* the rect elements (and labels) appended to the page's svg
Overlay(url, sc, rs, p) ==
  LET page == PageOf(url, p)
      viewport == getViewport(page, sc, page.rotate)
      prs == pageRects(rs, p)
  IN [i \in DOMAIN prs |->
        LET box == rectToViewport(prs[i], viewport, pageSizeOf(page))
        IN [id |-> prs[i].id,
            x |-> ToFixed2(box.left), y |-> ToFixed2(box.top),
            width |-> ToFixed2(box.width), height |-> ToFixed2(box.height),
            label |-> IF "label" \in DOMAIN prs[i] THEN prs[i].label ELSE Undef]]

\* the effect body up to its first await, run after a commit that changed
\* pdfUrl, scale or rects
StartPass(url, sc, rs) ==
  IF url = 0
  THEN UNCHANGED <<loading, passes, container>>
  ELSE /\ loading' = TRUE
       /\ container' = <<>>
       /\ passes' = Append(passes, [url |-> url, scale |-> sc, rects |-> rs,
                                    pc |-> "doc", p |-> 0])

\* bound: a handler whose state change starts a pass runs only while fewer than
\* MaxPasses passes were started
CanStart == pdfUrl = 0 \/ Len(passes) < MaxPasses

\* getDocument(pdfUrl).promise resolved: enter the page loop
DocLoaded(k) ==
  /\ passes[k].pc = "doc"
  /\ passes' = [passes EXCEPT ![k].pc = "page", ![k].p = 1]
  /\ UNCHANGED <<pdfUrl, scale, loading, container>>
  /\ UNCHANGED <<convVars, parseVars, storeVars, lastOp>>

\* pdf.getPage(p) resolved: canvas and badge in a new wrapper, appended
PageLoaded(k) ==
  /\ passes[k].pc = "page"
  /\ container' = Append(container,
       [pass |-> k, page |-> passes[k].p, scale |-> passes[k].scale,
        url |-> passes[k].url, svg |-> FALSE, drawn |-> <<>>])
  /\ passes' = [passes EXCEPT ![k].pc = "render"]
  /\ UNCHANGED <<pdfUrl, scale, loading>>
  /\ UNCHANGED <<convVars, parseVars, storeVars, lastOp>>

\* page.render(...).promise resolved: svg overlay into the pass's wrapper
\* (attached or not), then the next page or the end of the pass
Rendered(k) ==
  /\ passes[k].pc = "render"
  /\ container' =
       [i \in DOMAIN container |->
          IF container[i].pass = k /\ container[i].page = passes[k].p
          THEN [container[i] EXCEPT
                  !.svg = TRUE,
                  !.drawn = Overlay(passes[k].url, passes[k].scale,
                                    passes[k].rects, passes[k].p)]
          ELSE container[i]]
  /\ IF passes[k].p + 1 <= numPages(passes[k].url)
     THEN /\ passes' = [passes EXCEPT ![k].pc = "page", ![k].p = @ + 1]
          /\ UNCHANGED loading
     ELSE /\ passes' = [passes EXCEPT ![k].pc = "done"]
          /\ loading' = FALSE
  /\ UNCHANGED <<pdfUrl, scale>>
  /\ UNCHANGED <<convVars, parseVars, storeVars, lastOp>>

\* an awaited promise rejected: the async function ends there
PassFailed(k) ==
  /\ passes[k].pc \in {"doc", "page", "render"}
  /\ passes' = [passes EXCEPT ![k].pc = "failed"]
  /\ UNCHANGED <<pdfUrl, scale, loading, container>>
  /\ UNCHANGED <<convVars, parseVars, storeVars, lastOp>>

-----------------------------------------------------------------------------
(* Event handlers, each with the render effect its state change triggers   *)

\* file input onChange: setPdfFile, then the url effect's setPdfUrl
PickPdf(f) ==
  /\ Len(passes) < MaxPasses
  /\ f # pdfUrl
  /\ pdfUrl' = f
  /\ StartPass(f, scale, rects)
  /\ UNCHANGED <<scale>>
  /\ UNCHANGED <<convVars, parseVars, storeVars>>

\* slider onValueChange; the same value causes no re-render
SetScale(sc) ==
  /\ CanStart
  /\ sc # scale
  /\ scale' = sc
  /\ StartPass(pdfUrl, sc, rects)
  /\ UNCHANGED <<pdfUrl>>
  /\ UNCHANGED <<convVars, parseVars, storeVars>>

ManualAdd ==
  /\ CanStart
  /\ nextId < MaxRects
  /\ nextId' = nextId + 1
  /\ rects' = handleManualAdd(rects, nextId + 1, unit)
  /\ StartPass(pdfUrl, scale, rects')
  /\ UNCHANGED <<unit, alerts, jsonText, uploads, pdfUrl, scale>>
  /\ UNCHANGED <<convVars, parseVars>>

UpdateRect(id, patch) ==
  /\ CanStart
  /\ rects' = updateRect(rects, id, patch)
  /\ StartPass(pdfUrl, scale, rects')
  /\ UNCHANGED <<unit, nextId, alerts, jsonText, uploads, pdfUrl, scale>>
  /\ UNCHANGED <<convVars, parseVars>>

RemoveRect(id) ==
  /\ CanStart
  /\ rects' = removeRect(rects, id)
  /\ StartPass(pdfUrl, scale, rects')
  /\ UNCHANGED <<unit, nextId, alerts, jsonText, uploads, pdfUrl, scale>>
  /\ UNCHANGED <<convVars, parseVars>>

\* Clear Overlays: setRects([])
ClearOverlays ==
  /\ CanStart
  /\ rects' = <<>>
  /\ StartPass(pdfUrl, scale, rects')
  /\ UNCHANGED <<unit, nextId, alerts, jsonText, uploads, pdfUrl, scale>>
  /\ UNCHANGED <<convVars, parseVars>>

-----------------------------------------------------------------------------
(* JSON import: file upload and pasted text                                *)

MaxAlerts  == 2      \* alert() dialogs in a run
MaxUploads == 1      \* JSON files being read at a time

\* JSON texts the user uploads or pastes:
\*   1  {not json
\*   2  {"analysisResult":[{"matchingWords":[{"page":1,"words":
\*        [{"name":"a","polygon":[1,1,3,1,3,2,1,2]}]}]}]}
\*   3  {"analysisResult":5}
\*   4  {}
Texts == {1, 2, 3, 4}

\* JSON.parse(text); the empty text (0) is not JSON either
JsonParse(t) ==
  CASE t = 2 -> [threw |-> FALSE,
                 value |-> Obj([analysisResult |->
                   Arr(<<Result(Arr(<<Group(N(1),
                     Arr(<<Obj([name |-> Str(<<"a">>), page |-> Undef,
                                polygon |-> Polys[7]])>>))>>))>>)])]
    [] t = 3 -> [threw |-> FALSE, value |-> Obj([analysisResult |-> N(5)])]
    [] t = 4 -> [threw |-> FALSE, value |-> Obj([other |-> N(1)])]
    [] OTHER -> [threw |-> TRUE, value |-> Undef]

importRects_ResetOnError(prev, t, idBase) ==
  LET pr == JsonParse(t)
      res == IF pr.threw THEN [threw |-> TRUE, rects |-> <<>>]
             ELSE parseUploadedAzureJson(pr.value, idBase)
  IN IF res.threw THEN [failed |-> TRUE, rects |-> <<>>]
     ELSE [failed |-> FALSE, rects |-> prev \o res.rects]

\* the try block shared by both import paths: JSON.parse, then
\* parseUploadedAzureJson, then setRects((prev) => [...prev, ...autoRects]);
\* an exception from either call skips setRects
importRects(prev, t, idBase) ==
  LET pr == JsonParse(t)
      res == IF pr.threw THEN [threw |-> TRUE, rects |-> <<>>]
             ELSE parseUploadedAzureJson(pr.value, idBase)
  IN IF res.threw THEN [failed |-> TRUE, rects |-> prev]
     ELSE [failed |-> FALSE, rects |-> prev \o res.rects]

\* try { ... setRects; setUnit("inch") } catch { alert(...) }
ImportText(t) ==
  LET r == importRects(rects, t, nextId)
  IN IF r.failed
     THEN /\ alerts < MaxAlerts
          /\ alerts' = alerts + 1
          /\ rects' = r.rects
          /\ UNCHANGED <<unit, nextId, loading, passes, container>>
     ELSE /\ CanStart
          /\ nextId + (Len(r.rects) - Len(rects)) <= MaxRects
          /\ rects' = r.rects
          /\ nextId' = nextId + (Len(r.rects) - Len(rects))
          /\ unit' = "inch"
          /\ StartPass(pdfUrl, scale, rects')
          /\ UNCHANGED alerts

\* Textarea onChange
SetJsonText(t) ==
  /\ t # jsonText
  /\ jsonText' = t
  /\ UNCHANGED <<rects, unit, nextId, alerts, uploads>>
  /\ UNCHANGED <<convVars, parseVars, viewVars>>

\* "Import from JSON" onClick
ImportFromJson ==
  /\ ImportText(jsonText)
  /\ UNCHANGED <<jsonText, uploads, pdfUrl, scale>>
  /\ UNCHANGED <<convVars, parseVars>>

\* JSON file input onChange: handleJsonUpload up to await file.text()
JsonUploadPicked(t) ==
  /\ Len(uploads) < MaxUploads
  /\ uploads' = Append(uploads, t)
  /\ UNCHANGED <<rects, unit, nextId, alerts, jsonText>>
  /\ UNCHANGED <<convVars, parseVars, viewVars>>

\* file.text() of the i-th pending upload resolved: the rest of handleJsonUpload
JsonUploadRead(i) ==
  /\ i \in DOMAIN uploads
  /\ jsonText' = uploads[i]
  /\ uploads' = [j \in 1..(Len(uploads) - 1) |->
                   IF j < i THEN uploads[j] ELSE uploads[j + 1]]
  /\ ImportText(uploads[i])
  /\ UNCHANGED <<pdfUrl, scale>>
  /\ UNCHANGED <<convVars, parseVars>>

-----------------------------------------------------------------------------
(* Specifications                                                          *)

InitC == InitConv /\ InitParseIdle /\ InitApp
NextC == Convert \/ Project
SpecConv == InitC /\ [][NextC]_vars

Init == InitConvIdle /\ InitParseIdle /\ InitApp

\* JSON files uploaded while a PDF is on screen
ViewerTexts == {2}

\* the viewer: a PDF, the zoom, the rectangle list and the render passes
Next ==
  \/ \E f \in Files : PickPdf(f) /\ UNCHANGED lastOp
  \/ \E sc \in Scales : SetScale(sc) /\ UNCHANGED lastOp
  \/ ManualAdd /\ UNCHANGED lastOp
  \/ \E id \in Ids, patch \in PagePatches : UpdateRect(id, patch) /\ UNCHANGED lastOp
  \/ \E id \in Ids : RemoveRect(id) /\ UNCHANGED lastOp
  \/ ClearOverlays /\ UNCHANGED lastOp
  \/ \E t \in ViewerTexts : JsonUploadPicked(t) /\ UNCHANGED lastOp
  \/ \E i \in DOMAIN uploads : JsonUploadRead(i) /\ UNCHANGED lastOp
  \/ \E k \in DOMAIN passes : DocLoaded(k)
  \/ \E k \in DOMAIN passes : PageLoaded(k)
  \/ \E k \in DOMAIN passes : Rendered(k)
  \/ \E k \in DOMAIN passes : PassFailed(k)
Spec == Init /\ [][Next]_vars

Did(op, id, patch) == lastOp' = [op |-> op, id |-> id, patch |-> patch]

\* the rectangle list editor with no PDF chosen, each handler call logged
NextS ==
  \/ ManualAdd /\ Did("add", nextId', <<>>)
  \/ \E id \in Ids, patch \in Patches :
       UpdateRect(id, patch) /\ Did("update", id, patch)
  \/ \E id \in Ids : RemoveRect(id) /\ Did("remove", id, <<>>)
  \/ ClearOverlays /\ Did("clear", 0, <<>>)
SpecStore == Init /\ [][NextS]_vars

\* the import paths next to manual adds, each handler call logged
NextI ==
  \/ ManualAdd /\ Did("add", nextId', <<>>)
  \/ \E t \in Texts \cup {0} : SetJsonText(t) /\ Did("type", t, <<>>)
  \/ ImportFromJson /\ Did("import", jsonText, <<>>)
  \/ \E t \in Texts : JsonUploadPicked(t) /\ Did("pick", t, <<>>)
  \/ \E i \in DOMAIN uploads :
       JsonUploadRead(i) /\ Did("import", uploads[i], <<>>)
SpecImport == Init /\ [][NextI]_vars

InitP == InitConvIdle /\ InitParse /\ InitApp
NextP == Parse \/ PolyConvert
SpecParse == InitP /\ [][NextP]_vars

-----------------------------------------------------------------------------
(* Claims about the space converter (SpecConv)                             *)

PageSz == pageSizeOf(cPage)
LetterUpright == cPage = [w |-> N(612), h |-> N(792), rotate |-> 0]

\* C2: for unit "inch", left = 72*x, right = 72*(x+width), top = H - 72*y,
\* bottom = H - 72*(y+height): one vertical flip against the page height, no
\* horizontal flip; {1,1,2,1} on 612x792 gives {72, 216, 648, 720}.
C2_InchFlip ==
  (cStage \in {"converted", "projected"} /\ cRect.unit = "inch") =>
    /\ cPts.left   = JMul(N(72), cRect.x)
    /\ cPts.right  = JMul(N(72), JAdd(cRect.x, cRect.width))
    /\ cPts.top    = JSub(PageSz.height, JMul(N(72), cRect.y))
    /\ cPts.bottom = JSub(PageSz.height,
                          JMul(N(72), JAdd(cRect.y, cRect.height)))
    /\ (/\ LetterUpright
        /\ <<cRect.x, cRect.y, cRect.width, cRect.height>>
             = <<N(1), N(1), N(2), N(1)>>)
       => cPts = [left |-> N(72), right |-> N(216),
                  bottom |-> N(648), top |-> N(720)]

C2_Witness ==
  /\ cStage = "converted" /\ cRect.unit = "inch" /\ LetterUpright
  /\ <<cRect.x, cRect.y, cRect.width, cRect.height>> = <<N(1), N(1), N(2), N(1)>>
  /\ cPts.bottom = N(648) /\ cPts.top = N(720)

\* C3: for unit "ratio", left = x*W, right = (x+width)*W, top = H - y*H,
\* bottom = H - (y+height)*H; {0.5,0.5,0.25,0.25} on 612x792 gives
\* {306, 459, 198, 396}.
C3_RatioFlip ==
  (cStage \in {"converted", "projected"} /\ cRect.unit = "ratio") =>
    /\ cPts.left   = JMul(cRect.x, PageSz.width)
    /\ cPts.right  = JMul(JAdd(cRect.x, cRect.width), PageSz.width)
    /\ cPts.top    = JSub(PageSz.height, JMul(cRect.y, PageSz.height))
    /\ cPts.bottom = JSub(PageSz.height,
                          JMul(JAdd(cRect.y, cRect.height), PageSz.height))
    /\ (/\ LetterUpright
        /\ <<cRect.x, cRect.y, cRect.width, cRect.height>>
             = <<Num(1, 2), Num(1, 2), Num(1, 4), Num(1, 4)>>)
       => cPts = [left |-> N(306), right |-> N(459),
                  bottom |-> N(198), top |-> N(396)]

C3_Witness ==
  /\ cStage = "converted" /\ cRect.unit = "ratio" /\ LetterUpright
  /\ <<cRect.x, cRect.y, cRect.width, cRect.height>>
       = <<Num(1, 2), Num(1, 2), Num(1, 4), Num(1, 4)>>
  /\ cPts.left = N(306) /\ cPts.bottom = N(198)

\* C4: for unit "pdf" the conversion is a passthrough independent of the page
\* size: left = x, right = x+width, bottom = y, top = y+height, no flip.
C4_PdfPassthrough ==
  (cStage \in {"converted", "projected"} /\ cRect.unit = "pdf") =>
    /\ cPts.left   = cRect.x
    /\ cPts.right  = JAdd(cRect.x, cRect.width)
    /\ cPts.bottom = cRect.y
    /\ cPts.top    = JAdd(cRect.y, cRect.height)
    /\ \A d \in DOMAIN PageDims :
         rectToPdfPoints(cRect, [width |-> N(PageDims[d][1]),
                                 height |-> N(PageDims[d][2])]) = cPts

C4_Witness ==
  /\ cStage = "converted" /\ cRect.unit = "pdf"
  /\ cRect.y = N(1) /\ cRect.height = N(2)
  /\ cPts.bottom = N(1) /\ cPts.top = N(3)
  /\ PageSz.height = N(792)

\* the two page-space corners mapped through the viewport transform
MappedCorners ==
  LET vp == getViewport(cPage, cScale, cPage.rotate)
  IN << convertToViewportPoint(vp, cPts.left, cPts.top),
        convertToViewportPoint(vp, cPts.right, cPts.bottom) >>

\* C5: for any unit, negative extents included, and any scale with a rotation of
\* 0/90/180/270, the box is the axis-aligned bounding box of the two mapped
\* corners: left and top are the smaller mapped x and y, width and height the
\* distances between them, never negative.
C5_ViewportBBox ==
  cStage = "projected" =>
    LET v1 == MappedCorners[1]
        v2 == MappedCorners[2]
    IN /\ JLe(N(0), cBox.width) /\ JLe(N(0), cBox.height)
       /\ JLe(cBox.left, v1[1]) /\ JLe(cBox.left, v2[1])
       /\ JLe(cBox.top, v1[2]) /\ JLe(cBox.top, v2[2])
       /\ {cBox.left, JAdd(cBox.left, cBox.width)} = {v1[1], v2[1]}
       /\ {cBox.top, JAdd(cBox.top, cBox.height)} = {v1[2], v2[2]}

C5_Witness ==
  /\ cStage = "projected" /\ cPage.rotate = 180
  /\ JLt(cRect.width, N(0)) /\ JLt(cRect.height, N(0))
  /\ JLt(N(0), cBox.width) /\ JLt(N(0), cBox.height)
  /\ JLt(MappedCorners[1][1], MappedCorners[2][1])

-----------------------------------------------------------------------------
(* Claims about ingestion (SpecParse)                                      *)

Parsed == pStage \in {"parsed", "converted"}
\* the document has the expected shape around the words of pWords
HasGroup == pShape.kind >= 8
HasTailWord == pShape.kind = 21

ValidPoly(p) ==
  /\ p.t = "arr" /\ Len(p.v) >= 8
  /\ \A i \in 1..8 : p.v[i].t = "num" /\ ~IsNaN(p.v[i])
WordHasValid(w) == w.t = "obj" /\ ValidPoly(w.v.polygon)

Lowest(S)  == CHOOSE m \in S : \A e \in S : JLe(m, e)
Highest(S) == CHOOSE m \in S : \A e \in S : JLe(e, m)
XsOf(p) == {p.v[1], p.v[3], p.v[5], p.v[7]}
YsOf(p) == {p.v[2], p.v[4], p.v[6], p.v[8]}

IsBBox(r, p) ==
  /\ r.x = Lowest(XsOf(p))
  /\ r.y = Lowest(YsOf(p))
  /\ r.width = JSub(Highest(XsOf(p)), Lowest(XsOf(p)))
  /\ r.height = JSub(Highest(YsOf(p)), Lowest(YsOf(p)))
  /\ JLe(N(0), r.width) /\ JLe(N(0), r.height)

RectsLabelled(l) == {j \in DOMAIN parsed.rects : parsed.rects[j].label = l}

\* C6: a word whose polygon is an array of at least 8 numbers yields exactly one
\* rectangle, the bounding box of its four corners, labelled with the word's
\* name; parseUploadedAzureJson tags it "inch"; polygonsToRects computes the same
\* box with the unit it is given, one rectangle per item in input order.
C6_WordBBox ==
  /\ (Parsed /\ ~parsed.threw /\ HasGroup) =>
       /\ \A i \in DOMAIN pWords :
            WordHasValid(pWords[i]) =>
              /\ Cardinality(RectsLabelled(pWords[i].v.name)) = 1
              /\ \A j \in RectsLabelled(pWords[i].v.name) :
                   /\ IsBBox(parsed.rects[j], pWords[i].v.polygon)
                   /\ parsed.rects[j].unit = "inch"
       /\ HasTailWord =>
            /\ Cardinality(RectsLabelled(Undef)) = 1
            /\ \A j \in RectsLabelled(Undef) :
                 /\ IsBBox(parsed.rects[j], TailWord.v.polygon)
                 /\ parsed.rects[j].unit = "inch"
  /\ (pStage = "converted" /\ ~polyOut.threw) =>
       /\ Len(polyOut.rects) = Len(pWords)
       /\ \A i \in DOMAIN pWords :
            WordHasValid(pWords[i]) =>
              /\ IsBBox(polyOut.rects[i], pWords[i].v.polygon)
              /\ polyOut.rects[i].unit = pUnit
              /\ polyOut.rects[i].label = pWords[i].v.name

C6_Witness ==
  /\ pStage = "converted" /\ ~parsed.threw /\ ~polyOut.threw /\ HasGroup
  /\ pUnit = "ratio"
  /\ WordHasValid(pWords[1]) /\ pWords[1].v.polygon = Polys[7]
  /\ Len(parsed.rects) >= 1
  /\ <<parsed.rects[1].x, parsed.rects[1].y,
       parsed.rects[1].width, parsed.rects[1].height>>
       = <<N(1), N(1), N(2), N(1)>>
  /\ parsed.rects[1].unit = "inch"
  /\ polyOut.rects[1].unit = "ratio" /\ polyOut.rects[1].width = N(2)

NumValidWords ==
  Cardinality({i \in DOMAIN pWords : WordHasValid(pWords[i])})
    + (IF HasTailWord THEN 1 ELSE 0)

\* C7: a word whose polygon is missing, null, not an array or an array of fewer
\* than 8 values contributes no rectangle, and every sibling with a valid
\* polygon contributes one: the result has as many rectangles as there are
\* words with a valid polygon.
C7_MalformedSkipped ==
  (Parsed /\ ~parsed.threw /\ HasGroup) => Len(parsed.rects) = NumValidWords

\* C8: parseUploadedAzureJson never throws, whatever the shape of its input.
C8_NeverThrows == Parsed => ~parsed.threw

\* the page of word w of the group of pWords, as the claim has it
PageByClaim(w) == Coalesce(OptGet(w, "page"), Coalesce(PageVal(pShape.gp), N(1)))
\* the same with the page of the group's first word as a third choice
PageWithFirstWord(w) ==
  Coalesce(OptGet(w, "page"),
    Coalesce(PageVal(pShape.gp), Coalesce(OptGet(pWords[1], "page"), N(1))))

\* C9 as claimed: the page of an emitted rectangle is the word's page, else the
\* group's page, else 1, and nothing else.
C9_PageOriginal ==
  (Parsed /\ ~parsed.threw /\ HasGroup) =>
    \A i \in DOMAIN pWords : \A j \in DOMAIN parsed.rects :
      (pWords[i].t = "obj" /\ parsed.rects[j].label = pWords[i].v.name)
        => parsed.rects[j].page = PageByClaim(pWords[i])

\* C9 amended: the page of an emitted rectangle is the word's page, else the
\* group's page, else the page of the first word of the group, else 1.
C9_PageAmended ==
  (Parsed /\ ~parsed.threw /\ HasGroup) =>
    /\ \A i \in DOMAIN pWords : \A j \in DOMAIN parsed.rects :
         (pWords[i].t = "obj" /\ parsed.rects[j].label = pWords[i].v.name)
           => parsed.rects[j].page = PageWithFirstWord(pWords[i])
    /\ \A j \in RectsLabelled(Undef) : parsed.rects[j].page = TailPage

C9_Witness ==
  /\ Parsed /\ ~parsed.threw /\ HasGroup /\ pShape.gp = 0
  /\ WordHasValid(pWords[2]) /\ Nullish(pWords[2].v.page)
  /\ OptGet(pWords[1], "page") = N(2)
  /\ \E j \in DOMAIN parsed.rects :
       parsed.rects[j].label = Str(<<"b">>) /\ parsed.rects[j].page = N(2)

-----------------------------------------------------------------------------
(* Claims about the render passes (Spec)                                   *)

Finished(k) == passes[k].pc \in {"done", "failed"}
Latest == Len(passes)

\* what one complete pass over the current (pdfUrl, scale, rects) leaves in the
\* container: a wrapper per page, in page order, with its overlay
LatestOutput ==
  [p \in 1..numPages(pdfUrl) |->
     [pass |-> Latest, page |-> p, scale |-> scale, url |-> pdfUrl, svg |-> TRUE,
      drawn |-> Overlay(pdfUrl, scale, rects, p)]]

\* C1: a pass made stale by a change of document, scale or rectangles adds
\* nothing more to the container, and once all passes have finished the
\* container holds exactly the latest pass's wrappers, one per page in order.
C1_StaleAbandoned ==
  /\ \A i \in DOMAIN container : container[i].pass = Latest
  /\ (/\ passes # <<>>
      /\ \A k \in DOMAIN passes : Finished(k)
      /\ passes[Latest].pc = "done")
     => container = LatestOutput

-----------------------------------------------------------------------------
(* Claims about the rectangle list (SpecStore)                             *)

HasId(rs, id) == \E i \in DOMAIN rs : rs[i].id = id

\* C10: updateRect(id, patch) with an id no record has leaves the list as it
\* was (same records, values and order); with an id that is present it merges
\* the patch into that record only: its other fields, all other records, the
\* order and the length are unchanged.
C10_UpdateFrame ==
  [][ lastOp'.op = "update" =>
        LET id == lastOp'.id
            patch == lastOp'.patch
        IN /\ Len(rects') = Len(rects)
           /\ ~HasId(rects, id) => rects' = rects
           /\ \A i \in DOMAIN rects :
                IF rects[i].id = id
                THEN /\ DOMAIN rects'[i] = DOMAIN rects[i] \cup DOMAIN patch
                     /\ \A f \in DOMAIN patch : rects'[i][f] = patch[f]
                     /\ \A f \in DOMAIN rects[i] \ DOMAIN patch :
                          rects'[i][f] = rects[i][f]
                ELSE rects'[i] = rects[i] ]_vars

C10_Witness ==
  /\ lastOp.op = "update"
  /\ Len(rects) = 2
  /\ ~HasId(rects, lastOp.id)
  /\ \E i \in DOMAIN rects : "label" \in DOMAIN rects[i]

-----------------------------------------------------------------------------
(* Further claims about the space converter (SpecConv)                     *)

\* C13: with a page height of zero (or less) and a unit that needs the vertical
\* flip (inch or ratio), the converter fails with InvalidPageGeometry instead of
\* returning a box.
C13_InvalidPageGeometry ==
  (/\ cStage \in {"converted", "projected"}
   /\ cRect.unit \in {"inch", "ratio"}
   /\ JLe(PageSz.height, N(0)))
    => "left" \notin DOMAIN cPts

-----------------------------------------------------------------------------
(* Further claims about ingestion (SpecParse)                              *)

\* the item's polygon is missing or has fewer than 8 values
BadPolygon(it) ==
  LET p == Get(it, "polygon")
  IN Nullish(p) \/ (p.t = "arr" /\ Len(p.v) < 8)

\* C14: polygonsToRects, called directly, fails whenever some item's polygon is
\* missing or has fewer than 8 values; the error leaves the helper, so the call
\* yields no rectangle at all, not even for the well-formed items.
C14_MalformedPolygonFatal ==
  (pStage = "converted"
   /\ \E i \in DOMAIN pWords : BadPolygon(ItemsOf(pWords)[i]))
    => polyOut.threw /\ polyOut.rects = <<>>

C14_Witness ==
  /\ pStage = "converted"
  /\ WordHasValid(pWords[1])
  /\ pWords[2].t = "obj" /\ pWords[2].v.polygon = Polys[6]
  /\ polyOut.threw /\ polyOut.rects = <<>>
  /\ ~parsed.threw

-----------------------------------------------------------------------------
(* Further claims about the render passes (Spec)                           *)

\* C15: loading is true while any started render pass has not finished, and
\* false once every started pass has finished or failed.
C15_LoadingTracksPasses ==
  /\ (\E k \in DOMAIN passes : ~Finished(k)) => loading
  /\ (passes # <<>> /\ \A k \in DOMAIN passes : Finished(k)) => ~loading

-----------------------------------------------------------------------------
(* Claims about what is drawn (Spec)                                       *)

IdsOf(rs) == [i \in DOMAIN rs |-> rs[i].id]

\* the stored rectangles whose page equals p, in insertion order
listForPage(p) == SelectSeq(rects, LAMBDA r : r.page = N(p))

Quiescent ==
  /\ passes # <<>>
  /\ \A k \in DOMAIN passes : Finished(k)
  /\ passes[Latest].pc = "done"

\* C11: after any sequence of add, import, update, remove and clear operations,
\* once rendering has come to rest, the rectangles drawn on a page p are exactly
\* the stored rectangles whose page equals p, in insertion order, and a stored
\* rectangle whose page is outside 1..numPages is drawn on no page.
C11_DrawnIsStoredSubset ==
  Quiescent =>
    /\ \A i \in DOMAIN container :
         container[i].svg =>
           IdsOf(container[i].drawn) = IdsOf(listForPage(container[i].page))
    /\ \A j \in DOMAIN rects :
         (\A p \in 1..numPages(pdfUrl) : rects[j].page # N(p)) =>
           \A i \in DOMAIN container :
             \A d \in DOMAIN container[i].drawn :
               container[i].drawn[d].id # rects[j].id

-----------------------------------------------------------------------------
(* Claims about the JSON import (SpecImport)                               *)

Unparsable(t) == JsonParse(t).threw

\* C12: an import (file upload or pasted text) whose JSON text cannot be parsed
\* is reported to the user once, and leaves the stored rectangle list as it was:
\* no rectangle of earlier imports or manual adds is removed or modified, and
\* none is added.
C12_BadJsonReportedOnce ==
  [][ (lastOp'.op = "import" /\ Unparsable(lastOp'.id)) =>
        /\ alerts' = alerts + 1
        /\ rects' = rects ]_vars

C12_Witness ==
  /\ lastOp.op = "import"
  /\ Unparsable(lastOp.id)
  /\ alerts = 1
  /\ Len(rects) = 2
  /\ \E i \in DOMAIN rects : "label" \in DOMAIN rects[i]
  /\ \E i \in DOMAIN rects : "label" \notin DOMAIN rects[i]

=============================================================================
